---- MODULE Spec2Model ----
(***************************************************************************)
(* django-signalmethods: SignalMethod (a signal readable as an instance    *)
(* method) and SignalHandlingRule (a group of receivers attached to one    *)
(* signal for one sender class), src/signalmethods/__init__.py.            *)
(*                                                                         *)
(* Python dictionaries are functions from names to values, Python lists    *)
(* are sequences read with Python's 0-based indices through At.  An        *)
(* exception is a record [type, by]: its class and the callable that       *)
(* raised it.                                                              *)
(***************************************************************************)
EXTENDS Integers, Sequences, FiniteSets, TLC

VARIABLES
    providing_args, \* SignalMethod.providing_args: the declared names, in order
    receivers,      \* Signal.receivers: the registry, a list of (lookup_key, receiver)
    rules,          \* the SignalHandlingRule objects, by object identity
    lifecycle,      \* per rule, the last of start / stop / __enter__ that ran on it
    before,         \* pairs <<a, b>>: rule a was attached when rule b got attached
    last            \* the most recent call made by the application, and its outcome

vars == <<providing_args, receivers, rules, lifecycle, before, last>>

None == "None"

(* ------------------------------ bounds -------------------------------- *)

\* The longest declared argument-name sequence.
MaxProvided == 3
\* The most positional arguments a caller passes to the bound signal method.
MaxPositional == 2

(* --------------------------- the application -------------------------- *)

\* Names a signal may declare, in the order it declares them.
DeclarableNames == <<"spaceship", "asteroid", "make_noise", "aliens", "speed">>

\* The rule objects the application may hold at one time.
RuleIds == {"rule1", "rule2"}

\* Cruiser is a subclass of Spaceship; the signal is declared on Spaceship.
Classes == {"Spaceship", "Cruiser"}
Instances == {"spaceship1", "cruiser1"}

\* type(obj)
ClassOf(obj) == IF obj = "cruiser1" THEN "Cruiser" ELSE "Spaceship"

\* isinstance(value, cls)
IsInstance(value, cls) ==
    CASE cls = "Spaceship" -> value \in {"spaceship1", "cruiser1", "decoy"}
      [] cls = "Cruiser"   -> value = "cruiser1"
      [] cls = "Asteroid"  -> value \in {"rock", "ufo", "comet", "dust", "pebble"}
      [] OTHER             -> FALSE

\* The i-th positional argument a caller passes is PositionalValues[i].
PositionalValues == <<"rock", "ufo", "comet", "dust">>

(* ----------------------------- dictionaries --------------------------- *)

EmptyDict == [n \in {} |-> None]
Without(d, k) == [n \in DOMAIN d \ {k} |-> d[n]]
Put(d, k, v) == [n \in DOMAIN d \cup {k} |-> IF n = k THEN v ELSE d[n]]

\* seq[i] with Python's indices
At(seq, i) == seq[i + 1]
\* seq[1:]
Rest(seq) == IF seq = <<>> THEN <<>> ELSE Tail(seq)
Elems(seq) == {seq[i] : i \in 1..Len(seq)}

\* The named arguments a caller may add to a call of the signal method.
NamedChoices ==
    { EmptyDict,
      [n \in {"aliens"} |-> "no"],
      [n \in {"asteroid", "spaceship"} |-> IF n = "asteroid" THEN "pebble" ELSE "decoy"] }

(* ------------------------------ exceptions ---------------------------- *)

NoExc == [type |-> None, by |-> None]
Exc(type, by) == [type |-> type, by |-> by]

(* ------------------------------ receivers ----------------------------- *)

\* What inspect.getargspec reports of each callable the application passes
\* as an effect, with the kind of callable it is (a plain function, a method
\* read off its class, a method read off an instance), the class of a
\* method, and whether its body raises.
ArgSpec(receiver) ==
    CASE receiver = "explode" ->        \* Spaceship.explode
           [kind |-> "unbound", im_class |-> "Spaceship", args |-> <<"spaceship">>,
            ndefaults |-> 0, varargs |-> FALSE, keywords |-> FALSE, raises |-> FALSE]
      [] receiver = "lose_life" ->      \* spaceship.lose_life
           [kind |-> "bound", im_class |-> "Spaceship", args |-> <<"spaceship">>,
            ndefaults |-> 0, varargs |-> FALSE, keywords |-> FALSE, raises |-> FALSE]
      [] receiver = "destroy" ->        \* Asteroid.destroy
           [kind |-> "unbound", im_class |-> "Asteroid", args |-> <<"asteroid">>,
            ndefaults |-> 0, varargs |-> FALSE, keywords |-> FALSE, raises |-> FALSE]
      [] receiver = "destroy_both" ->   \* def f(spaceship, asteroid=asteroid)
           [kind |-> "function", im_class |-> None, args |-> <<"spaceship", "asteroid">>,
            ndefaults |-> 1, varargs |-> FALSE, keywords |-> FALSE, raises |-> FALSE]
      [] receiver = "destroy_noisy" ->  \* def f(spaceship, asteroid, make_noise=True, **kwargs)
           [kind |-> "function", im_class |-> None,
            args |-> <<"spaceship", "asteroid", "make_noise">>,
            ndefaults |-> 1, varargs |-> FALSE, keywords |-> TRUE, raises |-> FALSE]
      [] receiver = "crash" ->          \* def crash(spaceship): raise RuntimeError
           [kind |-> "function", im_class |-> None, args |-> <<"spaceship">>,
            ndefaults |-> 0, varargs |-> FALSE, keywords |-> FALSE, raises |-> TRUE]
      [] receiver = "refuel" ->         \* Spaceship.refuel, def refuel(self)
           [kind |-> "unbound", im_class |-> "Spaceship", args |-> <<"self">>,
            ndefaults |-> 0, varargs |-> FALSE, keywords |-> FALSE, raises |-> FALSE]
      [] receiver = "log_event" ->      \* def log_event(event)
           [kind |-> "function", im_class |-> None, args |-> <<"event">>,
            ndefaults |-> 0, varargs |-> FALSE, keywords |-> FALSE, raises |-> FALSE]
      [] receiver = "dock" ->           \* spaceship.dock, def dock(spaceship, asteroid, aliens=None)
           [kind |-> "bound", im_class |-> "Spaceship",
            args |-> <<"spaceship", "asteroid", "aliens">>,
            ndefaults |-> 1, varargs |-> FALSE, keywords |-> FALSE, raises |-> FALSE]
      [] OTHER ->                       \* "scatter": def scatter(spaceship, *debris)
           [kind |-> "function", im_class |-> None, args |-> <<"spaceship">>,
            ndefaults |-> 0, varargs |-> TRUE, keywords |-> FALSE, raises |-> FALSE]

\* The instance a bound method carries (im_self).
BoundSelf == "spaceship1"

\* receiver(*pos, **named): Python binds the arguments to the declared
\* parameters and raises TypeError when they do not fit; otherwise the body runs.
Call(receiver, pos, named) ==
    LET spec   == ArgSpec(receiver)
        params == spec.args
        given  == IF spec.kind = "bound" THEN <<BoundSelf>> \o pos ELSE pos
        filled == {params[i] : i \in 1..(IF Len(given) < Len(params) THEN Len(given) ELSE Len(params))}
        needed == {params[i] : i \in 1..(Len(params) - spec.ndefaults)}
    IN  IF \/ (spec.kind = "unbound"
               /\ (given = <<>> \/ ~IsInstance(given[1], spec.im_class)))
           \/ (Len(given) > Len(params) /\ ~spec.varargs)
           \/ (\E k \in DOMAIN named : k \notin Elems(params) /\ ~spec.keywords)
           \/ (\E k \in DOMAIN named : k \in filled)
           \/ (\E k \in needed : k \notin filled /\ k \notin DOMAIN named)
        THEN Exc("TypeError", receiver)
        ELSE IF spec.raises THEN Exc("RuntimeError", receiver) ELSE NoExc

(* ---------------------------- SignalMethod ---------------------------- *)

\* unbound_send's loop: for index, arg in enumerate(args):
\*     kwargs[providing_args[index+1]] = arg
\* from position index on.  IndexError when the declared names run out.
RECURSIVE BindPositional(_, _, _, _)
BindPositional(declared, args, index, kwargs) ==
    IF index >= Len(args)
    THEN [kwargs |-> kwargs, exc |-> NoExc]
    ELSE IF index + 1 >= Len(declared)
         THEN [kwargs |-> kwargs, exc |-> Exc("IndexError", "unbound_send")]
         ELSE BindPositional(declared, args, index + 1,
                             Put(kwargs, At(declared, index + 1), At(args, index)))

\* unbound_send with kwargs[providing_args[index]] = arg in its loop.
unbound_send_same_index(declared, self_arg, args, kwargs) ==
    BindPositional(<<None>> \o declared, args, 0, Put(kwargs, At(declared, 0), self_arg))

\* unbound_send(self_arg, *args, **kwargs), up to the call of send: the
\* keyword arguments the signal is sent with.
unbound_send(declared, self_arg, args, kwargs) ==
    BindPositional(declared, args, 0, Put(kwargs, At(declared, 0), self_arg))

(* ------------------------- SignalHandlingRule ------------------------- *)

\* One pass of __init__'s loop: the (arg_keys, use_kwargs) entry of one
\* receiver, or the TypeError that ends the construction.
ArgRule(receiver, provided_args) ==
    LET arg_spec == ArgSpec(receiver)
        arg_keys == IF arg_spec.kind = "bound" THEN Rest(arg_spec.args) ELSE arg_spec.args
    IN  IF arg_spec.kind = "unbound" /\ At(arg_spec.args, 0) \notin Elems(provided_args)
        THEN [arg_keys |-> arg_keys, use_kwargs |-> arg_spec.keywords,
              exc |-> Exc("TypeError", "__init__")]
        ELSE IF arg_spec.varargs
        THEN [arg_keys |-> arg_keys, use_kwargs |-> arg_spec.keywords,
              exc |-> Exc("TypeError", "__init__")]
        ELSE [arg_keys |-> arg_keys, use_kwargs |-> arg_spec.keywords, exc |-> NoExc]

\* The index (from 0) of the first receiver __init__ rejects, or the number
\* of receivers when it accepts them all.
RECURSIVE FirstRejected(_, _, _)
FirstRejected(effects, provided_args, index) ==
    IF index >= Len(effects) THEN index
    ELSE IF ArgRule(At(effects, index), provided_args).exc # NoExc THEN index
    ELSE FirstRejected(effects, provided_args, index + 1)

\* SignalHandlingRule.__init__(rule, unbound_signal_method, receivers, id):
\* the object it leaves (state "failed" when it raised part-way: the object
\* exists, unreferenced, with the attributes set before the raise) and the
\* exception.
NewRule(im_class, effects, id, provided_args) ==
    LET stop_at == FirstRejected(effects, provided_args, 0)
        ok == stop_at = Len(effects)
        done == {At(effects, i) : i \in 0..(stop_at - 1)}
    IN  [rule |-> [state |-> IF ok THEN "live" ELSE "failed",
                   SendingClass |-> im_class,
                   id |-> id,
                   receivers |-> effects,
                   arg_rules |-> [r \in done |->
                        [arg_keys |-> ArgRule(r, provided_args).arg_keys,
                         use_kwargs |-> ArgRule(r, provided_args).use_kwargs]]],
         exc |-> IF ok THEN NoExc ELSE Exc("TypeError", "__init__")]

NoRule == [state |-> "absent", SendingClass |-> None, id |-> None,
           receivers |-> <<>>, arg_rules |-> [r \in {} |-> None]]

\* The loop over arg_keys[1:] with the popped values never stored in kwargs.
PopEachDropped(keys, sent_kwargs, kwargs) ==
    [sent_kwargs |-> [n \in DOMAIN sent_kwargs \ Elems(keys) |-> sent_kwargs[n]],
     kwargs |-> kwargs]

\* _send_to_receiver's loop over arg_keys[1:]: each key present in
\* sent_kwargs is popped from it into kwargs, each absent key is skipped.
RECURSIVE PopEach(_, _, _)
PopEach(keys, sent_kwargs, kwargs) ==
    IF keys = <<>>
    THEN [sent_kwargs |-> sent_kwargs, kwargs |-> kwargs]
    ELSE IF Head(keys) \in DOMAIN sent_kwargs
         THEN PopEach(Tail(keys), Without(sent_kwargs, Head(keys)),
                      Put(kwargs, Head(keys), sent_kwargs[Head(keys)]))
         ELSE PopEach(Tail(keys), sent_kwargs, kwargs)

\* One receiver's record in a fan-out.
Step(receiver, sent_kwargs, called, pos, named, exc) ==
    [receiver |-> receiver, sent_kwargs |-> sent_kwargs,
     called |-> called, pos |-> pos, named |-> named, exc |-> exc]

\* rule._send_to_receiver(receiver, sent_kwargs): whether and how the
\* receiver was called, the exception raised, and the dictionary object
\* sent_kwargs as the method leaves it.  With use_kwargs, kwargs IS
\* sent_kwargs, so the pop of the first argument is seen in kwargs too.
_send_to_receiver(rule, receiver, sent_kwargs) ==
    LET arg_keys   == rule.arg_rules[receiver].arg_keys
        use_kwargs == rule.arg_rules[receiver].use_kwargs
        popped     == IF use_kwargs
                      THEN [sent_kwargs |-> sent_kwargs, kwargs |-> sent_kwargs]
                      ELSE PopEach(Rest(arg_keys), sent_kwargs, EmptyDict)
    IN  IF arg_keys # <<>>
        THEN IF At(arg_keys, 0) \notin DOMAIN popped.sent_kwargs
             THEN Step(receiver, popped.sent_kwargs, FALSE, <<>>, EmptyDict,
                       Exc("KeyError", "_send_to_receiver"))
             ELSE LET first_arg == popped.sent_kwargs[At(arg_keys, 0)]
                      left      == Without(popped.sent_kwargs, At(arg_keys, 0))
                      kwargs    == IF use_kwargs THEN left ELSE popped.kwargs
                  IN  Step(receiver, left, TRUE, <<first_arg>>, kwargs,
                           Call(receiver, <<first_arg>>, kwargs))
        ELSE Step(receiver, popped.sent_kwargs, TRUE, <<>>, popped.kwargs,
                  Call(receiver, <<>>, popped.kwargs))

\* The receiver handed _kwargs itself instead of dict(_kwargs).
KwargsSharedWithReceiver(_kwargs, step) == step.sent_kwargs

\* The broadcast's _kwargs after one receiver was served: the receiver was
\* handed dict(_kwargs), a new dictionary, so _kwargs itself is as before.
KwargsAfterReceiver(_kwargs, step) == _kwargs

\* The loop catching a receiver's exception and going on to the next receiver.
LoopAlwaysGoesOn(step) == TRUE

\* What the loop of _send_to_receivers does with a receiver's exception:
\* nothing, the exception leaves the loop.
LoopGoesOn(step) == step.exc = NoExc

\* rule._send_to_receivers(sender, signal, _kwargs): for receiver in
\* rule.receivers: rule._send_to_receiver(receiver, dict(_kwargs)), from
\* position index on.
RECURSIVE SendFrom(_, _, _, _)
SendFrom(rule, index, _kwargs, steps) ==
    IF index >= Len(rule.receivers)
    THEN [steps |-> steps, _kwargs |-> _kwargs, exc |-> NoExc]
    ELSE LET step == _send_to_receiver(rule, At(rule.receivers, index), _kwargs)
             seen == Append(steps, step)
             kept == KwargsAfterReceiver(_kwargs, step)
         IN  IF LoopGoesOn(step)
             THEN SendFrom(rule, index + 1, kept, seen)
             ELSE [steps |-> seen, _kwargs |-> kept, exc |-> step.exc]

_send_to_receivers(rule, _kwargs) == SendFrom(rule, 0, _kwargs, <<>>)

(* ------------------------ the signal's registry ----------------------- *)

\* bool(value) of a rule_id: None and the empty string are false.
Truthy(value) == value # None /\ value # ""

\* Signal.connect / Signal.disconnect: the key a receiver is filed under,
\* (dispatch_uid, sender) when a dispatch_uid is given and (receiver, sender)
\* otherwise.  The receiver of a rule is its bound method _send_to_receivers,
\* identified by the rule.
LookupKey(receiver, sender, dispatch_uid) ==
    IF Truthy(dispatch_uid) THEN <<dispatch_uid, sender>> ELSE <<receiver, sender>>

HasKey(registry, key) == \E i \in 1..Len(registry) : registry[i].key = key

\* Signal.connect(receiver, sender, weak=False, dispatch_uid): appends
\* (lookup_key, receiver) unless the key is filed already.
connect(registry, receiver, sender, dispatch_uid) ==
    LET lookup_key == LookupKey(receiver, sender, dispatch_uid)
    IN  IF HasKey(registry, lookup_key)
        THEN registry
        ELSE Append(registry, [key |-> lookup_key, receiver |-> receiver])

\* Signal.disconnect(receiver, sender, weak=False, dispatch_uid): deletes
\* the entry filed under the key, whichever receiver it holds.
disconnect(registry, receiver, sender, dispatch_uid) ==
    LET lookup_key == LookupKey(receiver, sender, dispatch_uid)
    IN  SelectSeq(registry, LAMBDA e : e.key # lookup_key)

\* Signal._live_receivers(sender): the receivers filed for the sender (or
\* for every sender), in the registry's order.
_live_receivers(registry, sender) ==
    SelectSeq(registry, LAMBDA e : e.key[2] = None \/ e.key[2] = sender)

\* Signal.send(sender, _kwargs=kwargs): calls each live receiver in turn,
\* here rule._send_to_receivers; an exception leaves send at once.
RECURSIVE SendLive(_, _, _, _)
SendLive(live, index, _kwargs, fanouts) ==
    IF index >= Len(live)
    THEN [fanouts |-> fanouts, _kwargs |-> _kwargs, exc |-> NoExc]
    ELSE LET r   == At(live, index).receiver
             out == _send_to_receivers(rules[r], _kwargs)
             all == Append(fanouts, [rule |-> r, steps |-> out.steps, exc |-> out.exc])
         IN  IF out.exc = NoExc
             THEN SendLive(live, index + 1, out._kwargs, all)
             ELSE [fanouts |-> all, _kwargs |-> out._kwargs, exc |-> out.exc]

\* start and stop called without dispatch_uid.
StartUidOmitted(rule) == None
StopUidOmitted(rule) == None

\* The dispatch_uid start hands to connect.
StartUid(rule) == rule.id
\* The dispatch_uid stop hands to disconnect.
StopUid(rule) == rule.id

\* The parameters stop declares: def stop(rule).
StopParams == <<"rule">>

\* start re-registering the receiver: disconnect, then connect.
start_afresh(registry, r) ==
    connect(disconnect(registry, r, rules[r].SendingClass, StartUid(rules[r])),
            r, rules[r].SendingClass, StartUid(rules[r]))

\* rule.start(), also rule.__enter__(): the registry it leaves.
start(registry, r) ==
    connect(registry, r, rules[r].SendingClass, StartUid(rules[r]))

\* rule.stop(*extra), also rule.__exit__(*extra): the registry it leaves and
\* the exception; Python raises TypeError before the body runs when stop is
\* handed more arguments than it declares.
stop(registry, r, extra) ==
    IF Len(<<r>> \o extra) > Len(StopParams)
    THEN [receivers |-> registry, exc |-> Exc("TypeError", "stop")]
    ELSE [receivers |-> disconnect(registry, r, rules[r].SendingClass, StopUid(rules[r])),
          exc |-> NoExc]

(* ------------------------------ the state ----------------------------- *)

Attached(registry, r) == \E i \in 1..Len(registry) : registry[i].receiver = r

\* before, after the registry went from old to new.
BeforeAfter(old, new) ==
    LET newly == {r \in RuleIds : Attached(new, r) /\ ~Attached(old, r)}
        gone  == {r \in RuleIds : Attached(old, r) /\ ~Attached(new, r)}
    IN  {p \in before : p[1] \notin gone /\ p[2] \notin gone}
        \cup {<<a, b>> \in RuleIds \X RuleIds :
                 b \in newly /\ Attached(old, a) /\ Attached(new, a)}

\* The record of one call by the application.
Outcome(op, r, exc) ==
    [op |-> op, rule |-> r, exc |-> exc, instance |-> None, args |-> <<>>,
     named |-> EmptyDict, sender |-> None, kwargs |-> EmptyDict,
     after |-> EmptyDict, fanouts |-> <<>>, effects |-> <<>>]

\* The ways the application configures a rule: the class the signal method
\* is read off, the rule_id, the effects.
RuleIdentifiers == {None, "x", "y"}
EffectChoices ==
    { <<"explode", "lose_life", "destroy">>,
      <<"explode", "destroy_both">>,
      <<"lose_life", "dock">>,
      <<"destroy_noisy", "destroy_both">>,
      <<"explode", "crash", "lose_life">>,
      <<"log_event">>,
      <<"explode", "refuel">>,
      <<"scatter">> }

ProvidingChoices == {SubSeq(DeclarableNames, 1, n) : n \in 1..MaxProvided}
PositionalChoices == {SubSeq(PositionalValues, 1, n) : n \in 0..MaxPositional}

\* What the with statement hands to __exit__: (None, None, None) when the
\* block ends normally, the exception's (type, value, traceback) otherwise.
ExcInfoChoices == { <<None, None, None>>, <<"RuntimeError", "boom", "traceback">> }

Init ==
    /\ providing_args \in ProvidingChoices
    /\ receivers = <<>>
    /\ rules = [r \in RuleIds |-> NoRule]
    /\ lifecycle = [r \in RuleIds |-> "idle"]
    /\ before = {}
    /\ last = Outcome("none", None, NoExc)

\* rule = SignalHandlingRule(Class.signal, effects, id)
Construct(r, im_class, id, effects) ==
    /\ rules[r].state = "absent"
    /\ LET new == NewRule(im_class, effects, id, providing_args)
       IN  /\ rules' = [rules EXCEPT ![r] = new.rule]
           /\ last' = [Outcome("construct", r, new.exc) EXCEPT !.effects = effects]
    /\ lifecycle' = [lifecycle EXCEPT ![r] = "idle"]
    /\ UNCHANGED <<providing_args, receivers, before>>

\* rule = when(Class.signal, rule_id)(*effects): construct, then start.
When(r, im_class, id, effects) ==
    /\ rules[r].state = "absent"
    /\ LET new == NewRule(im_class, effects, id, providing_args)
           reg == IF new.exc = NoExc
                  THEN connect(receivers, r, new.rule.SendingClass, StartUid(new.rule))
                  ELSE receivers
       IN  /\ rules' = [rules EXCEPT ![r] = new.rule]
           /\ receivers' = reg
           /\ before' = BeforeAfter(receivers, reg)
           /\ lifecycle' = [lifecycle EXCEPT ![r] = IF new.exc = NoExc THEN "started" ELSE "idle"]
           /\ last' = [Outcome("when", r, new.exc) EXCEPT !.effects = effects]
    /\ UNCHANGED providing_args

Start(r) ==
    /\ rules[r].state = "live"
    /\ receivers' = start(receivers, r)
    /\ before' = BeforeAfter(receivers, receivers')
    /\ lifecycle' = [lifecycle EXCEPT ![r] = "started"]
    /\ last' = Outcome("start", r, NoExc)
    /\ UNCHANGED <<providing_args, rules>>

Stop(r) ==
    /\ rules[r].state = "live"
    /\ receivers' = stop(receivers, r, <<>>).receivers
    /\ before' = BeforeAfter(receivers, receivers')
    /\ lifecycle' = [lifecycle EXCEPT ![r] = "stopped"]
    /\ last' = Outcome("stop", r, stop(receivers, r, <<>>).exc)
    /\ UNCHANGED <<providing_args, rules>>

\* with rule: ... entered: rule.__enter__()
Enter(r) ==
    /\ rules[r].state = "live"
    /\ receivers' = start(receivers, r)
    /\ before' = BeforeAfter(receivers, receivers')
    /\ lifecycle' = [lifecycle EXCEPT ![r] = "entered"]
    /\ last' = Outcome("enter", r, NoExc)
    /\ UNCHANGED <<providing_args, rules>>

\* with rule: ... left: rule.__exit__(exc_type, exc_value, traceback)
Exit(r, exc_info) ==
    /\ rules[r].state = "live"
    /\ lifecycle[r] = "entered"
    /\ LET out == stop(receivers, r, exc_info)
       IN  /\ receivers' = out.receivers
           /\ before' = BeforeAfter(receivers, out.receivers)
           /\ lifecycle' = [lifecycle EXCEPT ![r] =
                               IF out.exc = NoExc THEN "stopped" ELSE "started"]
           /\ last' = [Outcome("exit", r, out.exc) EXCEPT !.args = exc_info]
    /\ UNCHANGED <<providing_args, rules>>

\* The rule object is reclaimed: rule.__del__().  The registry holds the
\* receiver strongly (weak=False), so an attached rule is never reclaimed.
Del(r) ==
    /\ rules[r].state # "absent"
    /\ ~Attached(receivers, r)
    /\ receivers' = stop(receivers, r, <<>>).receivers
    /\ before' = BeforeAfter(receivers, receivers')
    /\ rules' = [rules EXCEPT ![r] = NoRule]
    /\ lifecycle' = [lifecycle EXCEPT ![r] = "idle"]
    /\ last' = Outcome("del", r, NoExc)
    /\ UNCHANGED providing_args

\* obj.signal(*args, **named), the signal method read off an instance.
Broadcast(obj, args, named) ==
    LET bound == unbound_send(providing_args, obj, args, named)
        type  == ClassOf(obj)
        sent  == SendLive(_live_receivers(receivers, type), 0, bound.kwargs, <<>>)
        call  == [Outcome("broadcast", None, bound.exc) EXCEPT
                     !.instance = obj, !.args = args, !.named = named]
    IN  /\ last' = IF bound.exc # NoExc
                   THEN call
                   ELSE [call EXCEPT !.exc = sent.exc, !.sender = type,
                                     !.kwargs = bound.kwargs, !.after = sent._kwargs,
                                     !.fanouts = sent.fanouts]
        /\ UNCHANGED <<providing_args, receivers, rules, lifecycle, before>>

\* The next-state relation over the rule objects, configurations and calls
\* the application draws from.
NextOver(Rs, Cs, Ids, Es, Objs, Poss, Nameds) ==
    \/ \E r \in Rs, c \in Cs, id \in Ids, e \in Es : Construct(r, c, id, e)
    \/ \E r \in Rs, c \in Cs, id \in Ids, e \in Es : When(r, c, id, e)
    \/ \E r \in Rs : Start(r)
    \/ \E r \in Rs : Stop(r)
    \/ \E r \in Rs : Enter(r)
    \/ \E r \in Rs, x \in ExcInfoChoices : Exit(r, x)
    \/ \E r \in Rs : Del(r)
    \/ \E obj \in Objs, args \in Poss, named \in Nameds : Broadcast(obj, args, named)

\* Two rule objects of either class, attached, detached and reclaimed in
\* every order, on the signal of the module's example.
LifecycleEffects ==
    { <<"explode", "lose_life">>, <<"crash", "explode">>, <<"explode", "refuel">> }

InitExample ==
    /\ Init
    /\ providing_args = <<"spaceship", "asteroid">>

Next ==
    NextOver(RuleIds, Classes, RuleIdentifiers, LifecycleEffects,
             Instances, {<<>>}, {EmptyDict})

Spec == InitExample /\ [][Next]_vars

\* One rule object over every kind of receiver, every declared sequence and
\* every shape of call.
NextFanOut ==
    NextOver({"rule1"}, Classes, {None, "x"}, EffectChoices,
             Instances, PositionalChoices, NamedChoices)

SpecFanOut == Init /\ [][NextFanOut]_vars

(* ------------------------------ properties ---------------------------- *)

\* The parameters a receiver declares, less the self a bound method carries.
Declared(receiver) ==
    IF ArgSpec(receiver).kind = "bound"
    THEN Rest(ArgSpec(receiver).args)
    ELSE ArgSpec(receiver).args

\* The declared parameters without a default.
Required(receiver) ==
    {ArgSpec(receiver).args[i] :
        i \in (IF ArgSpec(receiver).kind = "bound" THEN 2 ELSE 1)
              ..(Len(ArgSpec(receiver).args) - ArgSpec(receiver).ndefaults)}

\* What a receiver is to be called with on a broadcast of kwargs: the value
\* under its first declared name as the only positional argument, and as
\* named arguments the later declared names present in kwargs (every other
\* name of kwargs too when it accepts arbitrary named arguments).
ExpectedPos(receiver, kwargs) ==
    IF Declared(receiver) = <<>> THEN <<>> ELSE <<kwargs[Declared(receiver)[1]]>>
ExpectedNamed(receiver, kwargs) ==
    LET slot  == IF Declared(receiver) = <<>> THEN {} ELSE {Declared(receiver)[1]}
        names == IF ArgSpec(receiver).keywords
                 THEN DOMAIN kwargs \ slot
                 ELSE (DOMAIN kwargs \cap Elems(Rest(Declared(receiver)))) \ slot
    IN  [n \in names |-> kwargs[n]]

\* The fan-outs of rule r in the last broadcast.
FanoutsOf(r) == {i \in 1..Len(last.fanouts) : last.fanouts[i].rule = r}

\* The keyword arguments a call through an instance is to broadcast.
ExpectedKwargs(declared, obj, args, named) ==
    [n \in DOMAIN named \cup {declared[i] : i \in 1..(Len(args) + 1)} |->
        IF n = declared[1] THEN obj
        ELSE IF \E i \in 1..Len(args) : declared[i + 1] = n
             THEN args[CHOOSE i \in 1..Len(args) : declared[i + 1] = n]
             ELSE named[n]]

\* C1: a call of the signal method through an instance with positional
\* arguments a1..an, n < |S|, is one broadcast with the instance's class as
\* sender and the keyword arguments {S[0]: instance, S[1]: a1, ..., S[n]: an}
\* plus the named arguments the caller supplied under other names.
C1_BoundCallBroadcastsDeclaredNames ==
    (last.op = "broadcast" /\ Len(last.args) < Len(providing_args)) =>
        /\ last.exc.type # "IndexError"
        /\ last.sender = ClassOf(last.instance)
        /\ last.kwargs = ExpectedKwargs(providing_args, last.instance, last.args, last.named)

C1_Witness ==
    /\ last.op = "broadcast"
    /\ Len(last.args) = 2
    /\ Len(providing_args) = 3
    /\ "aliens" \in DOMAIN last.named
    /\ last.instance = "cruiser1"
    /\ last.kwargs["make_noise"] = "ufo"

\* C2: after stop was called on a group that had been started, with no
\* later start, a broadcast invokes none of the group's handlers.
C2_StoppedGroupIsNotInvoked ==
    \A r \in RuleIds :
        (last.op = "broadcast" /\ lifecycle[r] = "stopped") => FanoutsOf(r) = {}

C2_Witness ==
    \E r \in RuleIds :
        /\ last.op = "broadcast"
        /\ lifecycle[r] = "stopped"
        /\ rules[r].SendingClass = last.sender
        /\ rules[r].id # None
        /\ Len(last.fanouts) > 0

\* C3: constructing a group with a handler that is not bound to an instance
\* (a plain function or an unbound method) and whose first declared
\* parameter is not among the declared names raises a configuration error,
\* and the group is not registered.
C3_UnknownFirstNameIsRejected ==
    ( /\ last.op \in {"construct", "when"}
      /\ \E i \in 1..Len(last.effects) :
            /\ ArgSpec(last.effects[i]).kind # "bound"
            /\ ArgSpec(last.effects[i]).args # <<>>
            /\ ArgSpec(last.effects[i]).args[1] \notin Elems(providing_args) )
    => /\ last.exc.type = "TypeError"
       /\ ~Attached(receivers, last.rule)

\* C4: leaving the scoped block is a stop: after __exit__, on the normal
\* path and on the exception path, no error was raised by the exit itself
\* and the group is detached.
C4_ExitDetaches ==
    last.op = "exit" => (last.exc = NoExc /\ ~Attached(receivers, last.rule))

\* C5: when a broadcast omits an argument a handler requires, the handler
\* is called and the failure is the TypeError of the handler's own call.
C5_MissingArgumentFailsInTheHandler ==
    last.op = "broadcast" =>
        \A f \in 1..Len(last.fanouts) : \A i \in 1..Len(last.fanouts[f].steps) :
            LET s == last.fanouts[f].steps[i]
            IN  (\E p \in Required(s.receiver) : p \notin DOMAIN last.kwargs)
                => (s.called /\ s.exc = Exc("TypeError", s.receiver))

C8_ExceptionEndsTheFanOut ==
    last.op = "broadcast" =>
        \A f \in 1..Len(last.fanouts) : \A i \in 1..Len(last.fanouts[f].steps) :
            LET steps == last.fanouts[f].steps
                rule  == rules[last.fanouts[f].rule]
            IN  (steps[i].called /\ steps[i].exc # NoExc)
                => /\ Len(steps) = i
                   /\ f = Len(last.fanouts)
                   /\ \A j \in 1..i : steps[j].receiver = rule.receivers[j]
                   /\ \A j \in 1..(i - 1) : steps[j].called /\ steps[j].exc = NoExc
                   /\ last.exc = steps[i].exc
                   /\ last.exc.by = rule.receivers[i]

C8_Witness ==
    /\ last.op = "broadcast"
    /\ last.exc = Exc("RuntimeError", "crash")
    /\ Len(last.fanouts) = 1
    /\ Len(last.fanouts[1].steps) = 2

\* C9: every handler is served from its own copy of the broadcast's keyword
\* arguments: what a handler receives depends on the broadcast alone, not
\* on the handlers served before it (a handler is left uncalled only when
\* the broadcast lacks its first declared name), and the broadcast's
\* keyword arguments are the same after the fan-out.
C9_EachHandlerFromAFreshCopy ==
    last.op = "broadcast" =>
        /\ last.after = last.kwargs
        /\ \A f \in 1..Len(last.fanouts) : \A i \in 1..Len(last.fanouts[f].steps) :
             LET s == last.fanouts[f].steps[i]
             IN  IF s.called
                 THEN /\ s.pos = ExpectedPos(s.receiver, last.kwargs)
                      /\ s.named = ExpectedNamed(s.receiver, last.kwargs)
                 ELSE Declared(s.receiver)[1] \notin DOMAIN last.kwargs

C9_Witness ==
    /\ last.op = "broadcast"
    /\ Len(last.fanouts) = 1
    /\ Len(last.fanouts[1].steps) = 2
    /\ last.fanouts[1].steps[1].receiver = "destroy_noisy"
    /\ last.fanouts[1].steps[2].called
    /\ "aliens" \in DOMAIN last.fanouts[1].steps[1].named
    /\ "asteroid" \in DOMAIN last.fanouts[1].steps[2].named

\* The key of the claim for a registered rule: (identifier, sender) with an
\* identifier, (its receiver, sender) without.
ClaimedKey(r) ==
    IF rules[r].id # None
    THEN <<rules[r].id, rules[r].SendingClass>>
    ELSE <<r, rules[r].SendingClass>>

\* Rules a and b are two live groups sharing identifier and sender.
ShareKey(a, b) ==
    /\ a # b
    /\ rules[a].state = "live" /\ rules[b].state = "live"
    /\ rules[a].id # None /\ rules[a].id = rules[b].id
    /\ rules[a].SendingClass = rules[b].SendingClass

\* C10: in every state the registry holds at most one receiver per key, the
\* key of a group being (identifier, sender) with an identifier and (its
\* receiver, sender) without; a broadcast fires a group at most once; of two
\* groups sharing identifier and sender at most one is registered, and
\* after a stop on either none is.  And in every step a start (by start,
\* __enter__ or when) leaves every registered receiver registered, in its
\* place: the group started first keeps the key.
C10_OneReceiverPerKey ==
    /\ [] /\ \A i \in 1..Len(receivers), j \in 1..Len(receivers) :
                receivers[i].key = receivers[j].key => i = j
          /\ \A i \in 1..Len(receivers) :
                receivers[i].key = ClaimedKey(receivers[i].receiver)
          /\ last.op = "broadcast" => \A r \in RuleIds : Cardinality(FanoutsOf(r)) <= 1
          /\ \A a \in RuleIds, b \in RuleIds :
                ShareKey(a, b)
                => /\ ~(Attached(receivers, a) /\ Attached(receivers, b))
                   /\ (last.op = "stop" /\ last.rule \in {a, b})
                         => (~Attached(receivers, a) /\ ~Attached(receivers, b))
    /\ [][ last'.op \in {"start", "enter", "when"}
           => /\ Len(receivers') >= Len(receivers)
              /\ \A i \in 1..Len(receivers) : receivers'[i] = receivers[i] ]_vars

C10_Witness ==
    \E a \in RuleIds, b \in RuleIds :
        /\ a # b
        /\ rules[a].id = "x" /\ rules[b].id = "x"
        /\ rules[a].SendingClass = rules[b].SendingClass
        /\ lifecycle[a] = "started"
        /\ <<a, b>> \notin before /\ <<b, a>> \notin before
        /\ last.op = "stop" /\ last.rule = b

====
